---- MODULE Spec2Model ----
(***************************************************************************)
(* State-machine model of the ReputationStaking contract                   *)
(* (src/reputation_staking/src/lib.rs) and of the IssuerRegistry, SBT and  *)
(* SBTFactory contracts deployed next to it.  One action per external      *)
(* method; every call, successful or not, is recorded in `last`.           *)
(***************************************************************************)
EXTENDS Integers, FiniteSets, Sequences, TLC

VARIABLES
    owner,                  \* address owner
    total_staked,           \* uint256 total_staked
    minimum_stake,          \* uint256 minimum_stake
    reputation_multiplier,  \* uint256 reputation_multiplier
    stakes,                 \* mapping(address => uint256) stakes
    reputation_scores,      \* mapping(address => uint256) reputation_scores
    stake_timestamps,       \* mapping(address => uint256) stake_timestamps
    blacklisted,            \* mapping(address => bool) blacklisted
    total_reputation,       \* uint256 total_reputation
    constructed,            \* the #[constructor] has run successfully
    balance,                \* value held by the contract (received by payable calls)
    now,                    \* vm().block_timestamp()
    env,                    \* the inputs the callers draw from
    deposit_times,          \* per account, the time of its last successful deposit, if any
    last,                   \* the most recent call and its result
    issuer_registry,        \* storage of IssuerRegistry
    sbt,                    \* storage of SBT
    sbt_factory,            \* storage of SBTFactory
    deployed                \* the contracts of these three whose #[constructor] has run

ledger == <<owner, total_staked, minimum_stake, reputation_multiplier, stakes,
            reputation_scores, stake_timestamps, blacklisted, total_reputation>>

vars == <<owner, total_staked, minimum_stake, reputation_multiplier, stakes,
          reputation_scores, stake_timestamps, blacklisted, total_reputation,
          constructed, balance, now, env, deposit_times, last,
          issuer_registry, sbt, sbt_factory, deployed>>

\* everything a call of another contract leaves alone in ReputationStaking
staking == <<owner, total_staked, minimum_stake, reputation_multiplier, stakes,
             reputation_scores, stake_timestamps, blacklisted, total_reputation,
             constructed, balance, now, env, deposit_times>>

----------------------------------------------------------------------------
(* Bounds of the model *)

\* total value that exists to be sent to the contract in the small environment
MaxSupply == 3

\* the clock is read for this many cooldown periods
MaxDays == 1

\* tokens the SBT contract is asked to mint
MaxTokens == 2

----------------------------------------------------------------------------
(* Program constants *)

\* withdraw: "24 hours = 86400 seconds"
COOLDOWN == 86400

\* constructor: "Max 500% multiplier"
MAX_MULTIPLIER == 50000

\* calculate_reputation_increase: basis-point denominator
BASIS_POINTS == 10000

ZeroAddress == 0

Address == {ZeroAddress, 1, 2, 3}

\* accounts that sign a transaction
Sender == {1, 2}

\* the addresses the owner is asked to blacklist or to clear
BlacklistTarget == {ZeroAddress, 2}

\* tx_origin of the deployment (the test VM lets it be the zero address)
Deployer == {ZeroAddress, 1}

\* addresses that never call the ledger and are never named in a call
Untouched == Address \ (Sender \cup BlacklistTarget \cup Deployer)

\* the addresses the accessors are asked about
Queried == {1} \cup Untouched

----------------------------------------------------------------------------
(* U256 arithmetic of alloy_primitives: the operators wrap on overflow.    *)
(* The word is scaled from 256 to 30 bits so that it fits TLC's integers.  *)

U256Modulus == 2^30

U256Add(a, b) == (a + b) % U256Modulus

U256Sub(a, b) == (a - b + U256Modulus) % U256Modulus

U256Mul(a, b) == (a * b) % U256Modulus

U256Div(a, b) == a \div b

----------------------------------------------------------------------------
(* The callers' inputs *)

\* small values, where the rounding of the reputation arithmetic shows
SmallEnv ==
    [amounts     |-> {0, 1, 2},
     minimums    |-> {0, 2},
     multipliers |-> {15000, MAX_MULTIPLIER + 1},
     supply      |-> MaxSupply]

\* the values of tests::test_reputation_staking_contract
TestEnv ==
    [amounts     |-> {100, 200},
     minimums    |-> {100},
     multipliers |-> {5000, MAX_MULTIPLIER, MAX_MULTIPLIER + 1},
     supply      |-> 100 + 100]

\* the deposits of the minimum-stake example: 50 and 60 against a minimum
\* of 100
GateEnv ==
    [amounts     |-> {50, 60},
     minimums    |-> {50, 100},
     multipliers |-> {5000},
     supply      |-> 50 + 60]

\* deposits so large that amount * reputation_multiplier passes the word
\* size; they exist only where the native supply comes near the word size
OverflowEnv ==
    [amounts     |-> {0, U256Modulus \div MAX_MULTIPLIER + 1},
     minimums    |-> {0, 1},
     multipliers |-> {MAX_MULTIPLIER, MAX_MULTIPLIER + 1},
     supply      |-> U256Modulus \div MAX_MULTIPLIER + 1]

\* the record of a call: its arguments, its result, and what the ledger held
\* for the sender when the call was made
Call(op, sender, amount, user, multiplier, result) ==
    [op |-> op, sender |-> sender, amount |-> amount, user |-> user,
     multiplier |-> multiplier, result |-> result,
     stake_before |-> stakes[sender],
     reputation_before |-> reputation_scores[sender],
     timestamp_before |-> stake_timestamps[sender],
     listed_before |-> blacklisted[user],
     returned |-> 0,
     text |-> <<>>]

NoCall ==
    [op |-> "none", sender |-> ZeroAddress, amount |-> 0, user |-> ZeroAddress,
     multiplier |-> 0, result |-> "Ok",
     stake_before |-> 0, reputation_before |-> 0, timestamp_before |-> 0,
     listed_before |-> FALSE,
     returned |-> 0,
     text |-> <<>>]

\* storage of the other contracts before their constructors
IssuerRegistryStorage ==
    [owner |-> ZeroAddress,
     pending_owner |-> ZeroAddress,
     is_registered |-> [a \in Address |-> FALSE]]

\* the token ids the SBT contract is asked about; 1..MaxTokens are minted
TokenId == 0..(MaxTokens + 1)

SBTStorage ==
    [owner |-> ZeroAddress,
     next_token_id |-> 0,
     token_owners |-> [t \in TokenId |-> ZeroAddress],
     token_counts |-> [a \in Address |-> 0],
     token_uris |-> [t \in TokenId |-> ""],
     authorized_issuers |-> [a \in Address |-> FALSE]]

SBTFactoryStorage ==
    [all_sbt_collections |-> <<>>,
     issuer_collections |-> [a \in Address |-> <<>>],
     is_valid_sbt |-> [a \in Address |-> FALSE],
     total_collections_count |-> 0]

RECURSIVE SumOver(_, _)
SumOver(f, S) ==
    IF S = {} THEN 0
    ELSE LET a == CHOOSE x \in S : TRUE
         IN f[a] + SumOver(f, S \ {a})

----------------------------------------------------------------------------
Init ==
    /\ owner = ZeroAddress
    /\ total_staked = 0
    /\ minimum_stake = 0
    /\ reputation_multiplier = 0
    /\ stakes = [a \in Address |-> 0]
    /\ reputation_scores = [a \in Address |-> 0]
    /\ stake_timestamps = [a \in Address |-> 0]
    /\ blacklisted = [a \in Address |-> FALSE]
    /\ total_reputation = 0
    /\ constructed = FALSE
    /\ balance = 0
    /\ now = 0
    /\ env \in {SmallEnv, TestEnv, GateEnv}
    /\ deposit_times = [a \in Address |-> <<>>]
    /\ last = NoCall
    /\ issuer_registry = IssuerRegistryStorage
    /\ sbt = SBTStorage
    /\ sbt_factory = SBTFactoryStorage
    /\ deployed = {}

----------------------------------------------------------------------------
(* constructor *)

\* the multiplier is not capped
constructor_check_no_cap(origin, min_stake, multiplier) ==
    IF origin = ZeroAddress THEN "AddressZeroNotAllowed"
    ELSE "Ok"

\* the multiplier is checked before the initiator
constructor_check_multiplier_first(origin, min_stake, multiplier) ==
    IF multiplier > MAX_MULTIPLIER THEN "InvalidMultiplier"
    ELSE IF origin = ZeroAddress THEN "AddressZeroNotAllowed"
    ELSE "Ok"

constructor_check(origin, min_stake, multiplier) ==
    IF origin = ZeroAddress THEN "AddressZeroNotAllowed"
    ELSE IF multiplier > MAX_MULTIPLIER THEN "InvalidMultiplier"
    ELSE "Ok"

constructor(origin, min_stake, multiplier) ==
    /\ ~constructed
    /\ LET result == constructor_check(origin, min_stake, multiplier)
       IN /\ last' = Call("constructor", origin, min_stake, ZeroAddress, multiplier, result)
          /\ IF result = "Ok"
             THEN /\ owner' = origin
                  /\ minimum_stake' = min_stake
                  /\ reputation_multiplier' = multiplier
                  /\ total_staked' = 0
                  /\ total_reputation' = 0
                  /\ constructed' = TRUE
             ELSE UNCHANGED <<owner, minimum_stake, reputation_multiplier,
                              total_staked, total_reputation, constructed>>
    /\ UNCHANGED <<stakes, reputation_scores, stake_timestamps, blacklisted,
                   balance, now, env, deposit_times,
                   issuer_registry, sbt, sbt_factory, deployed>>

----------------------------------------------------------------------------
(* stake *)

\* the quotient is rounded up instead of down
calculate_reputation_increase_rounds_up(stake_amount) ==
    LET multiplier == reputation_multiplier
    IN U256Div(U256Add(U256Mul(stake_amount, multiplier), BASIS_POINTS - 1), BASIS_POINTS)

\* the product is divided by 1000 instead of 10000
calculate_reputation_increase_per_mille(stake_amount) ==
    LET multiplier == reputation_multiplier
    IN U256Div(U256Mul(stake_amount, multiplier), BASIS_POINTS \div 10)

calculate_reputation_increase(stake_amount) ==
    LET multiplier == reputation_multiplier
    IN U256Div(U256Mul(stake_amount, multiplier), BASIS_POINTS)

\* the amount is checked before the blacklist
stake_check_amount_first(staker, amount) ==
    IF amount = 0 THEN "InvalidAmount"
    ELSE IF blacklisted[staker] THEN "UserBlacklisted"
    ELSE IF U256Add(stakes[staker], amount) < minimum_stake THEN "InsufficientStake"
    ELSE "Ok"

\* the minimum is not checked at all
stake_check_no_minimum(staker, amount) ==
    IF blacklisted[staker] THEN "UserBlacklisted"
    ELSE IF amount = 0 THEN "InvalidAmount"
    ELSE "Ok"

\* the minimum is checked against the deposit instead of the new total
stake_check_minimum_on_amount(staker, amount) ==
    IF blacklisted[staker] THEN "UserBlacklisted"
    ELSE IF amount = 0 THEN "InvalidAmount"
    ELSE IF amount < minimum_stake THEN "InsufficientStake"
    ELSE "Ok"

\* the blacklist is not consulted on deposit
stake_check_no_blacklist(staker, amount) ==
    IF amount = 0 THEN "InvalidAmount"
    ELSE IF U256Add(stakes[staker], amount) < minimum_stake THEN "InsufficientStake"
    ELSE "Ok"

stake_check(staker, amount) ==
    IF blacklisted[staker] THEN "UserBlacklisted"
    ELSE IF amount = 0 THEN "InvalidAmount"
    ELSE IF U256Add(stakes[staker], amount) < minimum_stake THEN "InsufficientStake"
    ELSE "Ok"

\* a top-up keeps the timestamp of the first deposit
stake_update_stakes_keeps_timestamp(staker, amount) ==
    LET current_stake == stakes[staker]
        new_total_stake == U256Add(current_stake, amount)
    IN /\ stakes' = [stakes EXCEPT ![staker] = new_total_stake]
       /\ total_staked' = U256Add(total_staked, amount)
       /\ stake_timestamps' = IF current_stake = 0
                              THEN [stake_timestamps EXCEPT ![staker] = now]
                              ELSE stake_timestamps

\* the deposit restarts every account's cooldown
stake_update_stakes_stamps_all(staker, amount) ==
    LET current_stake == stakes[staker]
        new_total_stake == U256Add(current_stake, amount)
    IN /\ stakes' = [stakes EXCEPT ![staker] = new_total_stake]
       /\ total_staked' = U256Add(total_staked, amount)
       /\ stake_timestamps' = [a \in Address |-> now]

stake_update_stakes(staker, amount) ==
    LET current_stake == stakes[staker]
        new_total_stake == U256Add(current_stake, amount)
    IN /\ stakes' = [stakes EXCEPT ![staker] = new_total_stake]
       /\ total_staked' = U256Add(total_staked, amount)
       /\ stake_timestamps' = [stake_timestamps EXCEPT ![staker] = now]

stake_update_reputation(staker, amount) ==
    LET reputation_increase == calculate_reputation_increase(amount)
        current_reputation == reputation_scores[staker]
        new_reputation == U256Add(current_reputation, reputation_increase)
    IN /\ reputation_scores' = [reputation_scores EXCEPT ![staker] = new_reputation]
       /\ total_reputation' = U256Add(total_reputation, reputation_increase)

\* the stake is written before the minimum is checked
stake_writes_before_check(staker, amount) ==
    /\ constructed
    /\ amount <= env.supply - balance
    /\ LET result == stake_check(staker, amount)
       IN /\ last' = Call("stake", staker, amount, ZeroAddress, 0, result)
          /\ IF result = "Ok"
             THEN /\ stake_update_stakes(staker, amount)
                  /\ stake_update_reputation(staker, amount)
                  /\ balance' = balance + amount
                  /\ deposit_times' = [deposit_times EXCEPT ![staker] = <<now>>]
             ELSE /\ stakes' = IF result = "InsufficientStake"
                                THEN [stakes EXCEPT ![staker] = U256Add(@, amount)]
                                ELSE stakes
                  /\ UNCHANGED <<total_staked, stake_timestamps, reputation_scores,
                                 total_reputation, balance, deposit_times>>
    /\ UNCHANGED <<owner, minimum_stake, reputation_multiplier, blacklisted,
                   constructed, now, env,
                   issuer_registry, sbt, sbt_factory, deployed>>

stake(staker, amount) ==
    /\ constructed
    /\ amount <= env.supply - balance
    /\ LET result == stake_check(staker, amount)
       IN /\ last' = Call("stake", staker, amount, ZeroAddress, 0, result)
          /\ IF result = "Ok"
             THEN /\ stake_update_stakes(staker, amount)
                  /\ stake_update_reputation(staker, amount)
                  /\ balance' = balance + amount
                  /\ deposit_times' = [deposit_times EXCEPT ![staker] = <<now>>]
             ELSE UNCHANGED <<stakes, total_staked, stake_timestamps,
                              reputation_scores, total_reputation, balance,
                              deposit_times>>
    /\ UNCHANGED <<owner, minimum_stake, reputation_multiplier, blacklisted,
                   constructed, now, env,
                   issuer_registry, sbt, sbt_factory, deployed>>

----------------------------------------------------------------------------
(* withdraw *)

\* the decrease is what the withdrawn amount earns at the current multiplier,
\* whatever the score holds
calculate_reputation_decrease_of_amount(staker, withdraw_amount, total_stake) ==
    U256Div(U256Mul(withdraw_amount, reputation_multiplier), BASIS_POINTS)

\* the decrease undoes the accrual of the withdrawn amount at the current
\* multiplier instead of taking the proportional share of the score
calculate_reputation_decrease_by_multiplier(staker, withdraw_amount, total_stake) ==
    LET current_reputation == reputation_scores[staker]
        undone == U256Div(U256Mul(withdraw_amount, reputation_multiplier), BASIS_POINTS)
    IN IF total_stake = 0 \/ undone > current_reputation THEN current_reputation
       ELSE undone

\* the quotient is taken before the product, as the comment in the code writes it
calculate_reputation_decrease_divides_first(staker, withdraw_amount, total_stake) ==
    LET current_reputation == reputation_scores[staker]
    IN IF total_stake = 0 THEN current_reputation
       ELSE U256Mul(withdraw_amount, U256Div(current_reputation, total_stake))

calculate_reputation_decrease(staker, withdraw_amount, total_stake) ==
    LET current_reputation == reputation_scores[staker]
    IN IF total_stake = 0 THEN current_reputation
       ELSE U256Div(U256Mul(withdraw_amount, current_reputation), total_stake)

\* the blacklist is not consulted
withdraw_check_no_blacklist(staker, amount) ==
    IF stakes[staker] = 0 THEN "NoStakeToWithdraw"
    ELSE IF amount > stakes[staker] THEN "InsufficientBalance"
    ELSE IF now < U256Add(stake_timestamps[staker], COOLDOWN) THEN "TooEarlyToWithdraw"
    ELSE "Ok"

\* the time lock is checked before the balance
withdraw_check_cooldown_first(staker, amount) ==
    IF blacklisted[staker] THEN "UserBlacklisted"
    ELSE IF stakes[staker] = 0 THEN "NoStakeToWithdraw"
    ELSE IF now < U256Add(stake_timestamps[staker], COOLDOWN) THEN "TooEarlyToWithdraw"
    ELSE IF amount > stakes[staker] THEN "InsufficientBalance"
    ELSE "Ok"

\* the time lock still holds at the instant the cooldown ends
withdraw_check_lock_inclusive(staker, amount) ==
    IF blacklisted[staker] THEN "UserBlacklisted"
    ELSE IF stakes[staker] = 0 THEN "NoStakeToWithdraw"
    ELSE IF amount > stakes[staker] THEN "InsufficientBalance"
    ELSE IF now <= U256Add(stake_timestamps[staker], COOLDOWN) THEN "TooEarlyToWithdraw"
    ELSE "Ok"

\* a withdrawal may not leave a positive stake below the minimum
withdraw_check_keeps_minimum(staker, amount) ==
    IF blacklisted[staker] THEN "UserBlacklisted"
    ELSE IF stakes[staker] = 0 THEN "NoStakeToWithdraw"
    ELSE IF amount > stakes[staker] THEN "InsufficientBalance"
    ELSE IF now < U256Add(stake_timestamps[staker], COOLDOWN) THEN "TooEarlyToWithdraw"
    ELSE IF amount < stakes[staker] /\ U256Sub(stakes[staker], amount) < minimum_stake
         THEN "InsufficientStake"
    ELSE "Ok"

\* amount 0 is rejected as in stake
withdraw_check_rejects_zero(staker, amount) ==
    IF blacklisted[staker] THEN "UserBlacklisted"
    ELSE IF amount = 0 THEN "InvalidAmount"
    ELSE IF stakes[staker] = 0 THEN "NoStakeToWithdraw"
    ELSE IF amount > stakes[staker] THEN "InsufficientBalance"
    ELSE IF now < U256Add(stake_timestamps[staker], COOLDOWN) THEN "TooEarlyToWithdraw"
    ELSE "Ok"

withdraw_check(staker, amount) ==
    IF blacklisted[staker] THEN "UserBlacklisted"
    ELSE IF stakes[staker] = 0 THEN "NoStakeToWithdraw"
    ELSE IF amount > stakes[staker] THEN "InsufficientBalance"
    ELSE IF now < U256Add(stake_timestamps[staker], COOLDOWN) THEN "TooEarlyToWithdraw"
    ELSE "Ok"

\* the total is not reduced
withdraw_update_stakes_keeps_total(staker, amount) ==
    LET current_stake == stakes[staker]
        new_stake == U256Sub(current_stake, amount)
    IN /\ stakes' = [stakes EXCEPT ![staker] = new_stake]
       /\ total_staked' = total_staked

withdraw_update_stakes(staker, amount) ==
    LET current_stake == stakes[staker]
        new_stake == U256Sub(current_stake, amount)
    IN /\ stakes' = [stakes EXCEPT ![staker] = new_stake]
       /\ total_staked' = U256Sub(total_staked, amount)

\* the total is reduced by the withdrawn amount instead of the decrease
withdraw_update_reputation_by_amount(staker, amount) ==
    LET current_stake == stakes[staker]
        reputation_decrease == calculate_reputation_decrease(staker, amount, current_stake)
        current_reputation == reputation_scores[staker]
        new_reputation == IF current_reputation > reputation_decrease
                          THEN U256Sub(current_reputation, reputation_decrease)
                          ELSE 0
    IN /\ reputation_scores' = [reputation_scores EXCEPT ![staker] = new_reputation]
       /\ total_reputation' = IF total_reputation > amount
                              THEN U256Sub(total_reputation, amount)
                              ELSE 0

withdraw_update_reputation(staker, amount) ==
    LET current_stake == stakes[staker]
        reputation_decrease == calculate_reputation_decrease(staker, amount, current_stake)
        current_reputation == reputation_scores[staker]
        new_reputation == IF current_reputation > reputation_decrease
                          THEN U256Sub(current_reputation, reputation_decrease)
                          ELSE 0
    IN /\ reputation_scores' = [reputation_scores EXCEPT ![staker] = new_reputation]
       /\ total_reputation' = U256Sub(total_reputation, reputation_decrease)

\* a withdrawal starts the cooldown again
withdraw_restarts_cooldown(staker, amount) ==
    /\ constructed
    /\ LET result == withdraw_check(staker, amount)
       IN /\ last' = Call("withdraw", staker, amount, ZeroAddress, 0, result)
          /\ IF result = "Ok"
             THEN /\ withdraw_update_stakes(staker, amount)
                  /\ withdraw_update_reputation(staker, amount)
             ELSE UNCHANGED <<stakes, total_staked, reputation_scores, total_reputation>>
          /\ stake_timestamps' = IF result = "Ok"
                                 THEN [stake_timestamps EXCEPT ![staker] = now]
                                 ELSE stake_timestamps
    /\ UNCHANGED <<owner, minimum_stake, reputation_multiplier,
                   blacklisted, constructed, balance, now, env, deposit_times,
                   issuer_registry, sbt, sbt_factory, deployed>>

\* the decrease is rounded up instead of down
reputation_after_withdraw_rounds_up(current_reputation, current_stake, amount) ==
    LET reputation_decrease ==
            IF current_stake = 0 THEN current_reputation
            ELSE U256Div(U256Add(U256Mul(amount, current_reputation), current_stake - 1),
                         current_stake)
    IN IF current_reputation > reputation_decrease
       THEN U256Sub(current_reputation, reputation_decrease)
       ELSE 0

\* The reputation withdraw writes for a staker holding `current_reputation`
\* on a stake of `current_stake` who withdraws `amount`: the proportional
\* decrease, saturating at zero.
reputation_after_withdraw(current_reputation, current_stake, amount) ==
    LET reputation_decrease ==
            IF current_stake = 0 THEN current_reputation
            ELSE U256Div(U256Mul(amount, current_reputation), current_stake)
    IN IF current_reputation > reputation_decrease
       THEN U256Sub(current_reputation, reputation_decrease)
       ELSE 0

withdraw(staker, amount) ==
    /\ constructed
    /\ LET result == withdraw_check(staker, amount)
       IN /\ last' = Call("withdraw", staker, amount, ZeroAddress, 0, result)
          /\ IF result = "Ok"
             THEN /\ withdraw_update_stakes(staker, amount)
                  /\ withdraw_update_reputation(staker, amount)
             ELSE UNCHANGED <<stakes, total_staked, reputation_scores, total_reputation>>
    /\ UNCHANGED <<owner, minimum_stake, reputation_multiplier, stake_timestamps,
                   blacklisted, constructed, balance, now, env, deposit_times,
                   issuer_registry, sbt, sbt_factory, deployed>>

----------------------------------------------------------------------------
(* accessors *)

stake_of(staker) == stakes[staker]

reputation_of(staker) == reputation_scores[staker]

\* an account without a deposit is answered with the present time
stake_timestamp_unset_is_now(staker) ==
    IF stakes[staker] = 0 THEN now ELSE stake_timestamps[staker]

stake_timestamp(staker) == stake_timestamps[staker]

is_blacklisted(user) == blacklisted[user]

Accessor == {"owner", "total_staked", "minimum_stake", "reputation_multiplier",
             "total_reputation", "stake_of", "reputation_of", "stake_timestamp",
             "is_blacklisted"}

\* the accessors that take an address
AddressAccessor == {"stake_of", "reputation_of", "stake_timestamp", "is_blacklisted"}

accessor_value(accessor, user) ==
    CASE accessor = "owner" -> owner
      [] accessor = "total_staked" -> total_staked
      [] accessor = "minimum_stake" -> minimum_stake
      [] accessor = "reputation_multiplier" -> reputation_multiplier
      [] accessor = "total_reputation" -> total_reputation
      [] accessor = "stake_of" -> stake_of(user)
      [] accessor = "reputation_of" -> reputation_of(user)
      [] accessor = "stake_timestamp" -> stake_timestamp(user)
      [] accessor = "is_blacklisted" -> is_blacklisted(user)

\* a call of one accessor; those without an argument are recorded with the
\* zero address
read(accessor, user) ==
    /\ constructed
    /\ last' = [Call(accessor, ZeroAddress, 0, user, 0, "Ok")
                  EXCEPT !.returned = accessor_value(accessor, user)]
    /\ UNCHANGED <<owner, total_staked, minimum_stake, reputation_multiplier,
                   stakes, reputation_scores, stake_timestamps, blacklisted,
                   total_reputation, constructed, balance, now, env, deposit_times,
                   issuer_registry, sbt, sbt_factory, deployed>>

----------------------------------------------------------------------------
(* owner-only operations *)

\* a minimum of zero is rejected
set_minimum_stake_rejects_zero(sender, new_minimum) ==
    /\ constructed
    /\ LET result == IF sender # owner THEN "NotOwner"
                     ELSE IF new_minimum = 0 THEN "InsufficientStake"
                     ELSE "Ok"
       IN /\ last' = Call("set_minimum_stake", sender, new_minimum, ZeroAddress, 0, result)
          /\ IF result = "Ok"
             THEN minimum_stake' = new_minimum
             ELSE UNCHANGED minimum_stake
    /\ UNCHANGED <<owner, total_staked, reputation_multiplier, stakes,
                   reputation_scores, stake_timestamps, blacklisted,
                   total_reputation, constructed, balance, now, env, deposit_times,
                   issuer_registry, sbt, sbt_factory, deployed>>

\* the new value is stored in the multiplier's slot as well
set_minimum_stake_writes_multiplier(sender, new_minimum) ==
    /\ constructed
    /\ LET result == IF sender # owner THEN "NotOwner" ELSE "Ok"
       IN /\ last' = Call("set_minimum_stake", sender, new_minimum, ZeroAddress, 0, result)
          /\ IF result = "Ok"
             THEN /\ minimum_stake' = new_minimum
                  /\ reputation_multiplier' = new_minimum
             ELSE UNCHANGED <<minimum_stake, reputation_multiplier>>
    /\ UNCHANGED <<owner, total_staked, stakes,
                   reputation_scores, stake_timestamps, blacklisted,
                   total_reputation, constructed, balance, now, env, deposit_times,
                   issuer_registry, sbt, sbt_factory, deployed>>

set_minimum_stake(sender, new_minimum) ==
    /\ constructed
    /\ LET result == IF sender # owner THEN "NotOwner" ELSE "Ok"
       IN /\ last' = Call("set_minimum_stake", sender, new_minimum, ZeroAddress, 0, result)
          /\ IF result = "Ok"
             THEN minimum_stake' = new_minimum
             ELSE UNCHANGED minimum_stake
    /\ UNCHANGED <<owner, total_staked, reputation_multiplier, stakes,
                   reputation_scores, stake_timestamps, blacklisted,
                   total_reputation, constructed, balance, now, env, deposit_times,
                   issuer_registry, sbt, sbt_factory, deployed>>

\* the zero address is rejected before the caller is checked
blacklist_user_zero_check_first(sender, user) ==
    /\ constructed
    /\ LET result == IF user = ZeroAddress THEN "AddressZeroNotAllowed"
                     ELSE IF sender # owner THEN "NotOwner"
                     ELSE "Ok"
       IN /\ last' = Call("blacklist_user", sender, 0, user, 0, result)
          /\ IF result = "Ok"
             THEN blacklisted' = [blacklisted EXCEPT ![user] = TRUE]
             ELSE UNCHANGED blacklisted
    /\ UNCHANGED <<owner, total_staked, minimum_stake, reputation_multiplier,
                   stakes, reputation_scores, stake_timestamps,
                   total_reputation, constructed, balance, now, env, deposit_times,
                   issuer_registry, sbt, sbt_factory, deployed>>

blacklist_user(sender, user) ==
    /\ constructed
    /\ LET result == IF sender # owner THEN "NotOwner"
                     ELSE IF user = ZeroAddress THEN "AddressZeroNotAllowed"
                     ELSE "Ok"
       IN /\ last' = Call("blacklist_user", sender, 0, user, 0, result)
          /\ IF result = "Ok"
             THEN blacklisted' = [blacklisted EXCEPT ![user] = TRUE]
             ELSE UNCHANGED blacklisted
    /\ UNCHANGED <<owner, total_staked, minimum_stake, reputation_multiplier,
                   stakes, reputation_scores, stake_timestamps,
                   total_reputation, constructed, balance, now, env, deposit_times,
                   issuer_registry, sbt, sbt_factory, deployed>>

\* clearing a flag that is not set succeeds, as setting a set flag does
remove_from_blacklist_unguarded(sender, user) ==
    /\ constructed
    /\ LET result == IF sender # owner THEN "NotOwner" ELSE "Ok"
       IN /\ last' = Call("remove_from_blacklist", sender, 0, user, 0, result)
          /\ IF result = "Ok"
             THEN blacklisted' = [blacklisted EXCEPT ![user] = FALSE]
             ELSE UNCHANGED blacklisted
    /\ UNCHANGED <<owner, total_staked, minimum_stake, reputation_multiplier,
                   stakes, reputation_scores, stake_timestamps,
                   total_reputation, constructed, balance, now, env, deposit_times,
                   issuer_registry, sbt, sbt_factory, deployed>>

remove_from_blacklist(sender, user) ==
    /\ constructed
    /\ LET result == IF sender # owner THEN "NotOwner"
                     ELSE IF ~blacklisted[user] THEN "UserNotBlacklisted"
                     ELSE "Ok"
       IN /\ last' = Call("remove_from_blacklist", sender, 0, user, 0, result)
          /\ IF result = "Ok"
             THEN blacklisted' = [blacklisted EXCEPT ![user] = FALSE]
             ELSE UNCHANGED blacklisted
    /\ UNCHANGED <<owner, total_staked, minimum_stake, reputation_multiplier,
                   stakes, reputation_scores, stake_timestamps,
                   total_reputation, constructed, balance, now, env, deposit_times,
                   issuer_registry, sbt, sbt_factory, deployed>>

----------------------------------------------------------------------------
(* the host's clock *)

\* the instants at which the clock is read: the last second of each cooldown
\* period and the first second after it
Ticks == {0} \cup {k * COOLDOWN - 1 : k \in 1..MaxDays}
             \cup {k * COOLDOWN : k \in 1..MaxDays}

AdvanceTime(t) ==
    /\ t > now
    /\ now' = t
    /\ last' = NoCall
    /\ UNCHANGED <<owner, total_staked, minimum_stake, reputation_multiplier,
                   stakes, reputation_scores, stake_timestamps, blacklisted,
                   total_reputation, constructed, balance, env, deposit_times,
                   issuer_registry, sbt, sbt_factory, deployed>>

----------------------------------------------------------------------------
Next ==
    \/ \E origin \in Deployer, m \in env.minimums, k \in env.multipliers :
          constructor(origin, m, k)
    \/ \E s \in Sender, amount \in env.amounts : stake(s, amount)
    \/ \E s \in Sender, amount \in env.amounts : withdraw(s, amount)
    \/ \E s \in Sender, m \in env.minimums : set_minimum_stake(s, m)
    \/ \E s \in Sender, u \in BlacklistTarget : blacklist_user(s, u)
    \/ \E s \in Sender, u \in BlacklistTarget : remove_from_blacklist(s, u)
    \/ \E t \in Ticks : AdvanceTime(t)

Spec == Init /\ [][Next]_vars

\* the same contract, called with the deposits of OverflowEnv
InitOverflow ==
    /\ owner = ZeroAddress
    /\ total_staked = 0
    /\ minimum_stake = 0
    /\ reputation_multiplier = 0
    /\ stakes = [a \in Address |-> 0]
    /\ reputation_scores = [a \in Address |-> 0]
    /\ stake_timestamps = [a \in Address |-> 0]
    /\ blacklisted = [a \in Address |-> FALSE]
    /\ total_reputation = 0
    /\ constructed = FALSE
    /\ balance = 0
    /\ now = 0
    /\ env = OverflowEnv
    /\ deposit_times = [a \in Address |-> <<>>]
    /\ last = NoCall
    /\ issuer_registry = IssuerRegistryStorage
    /\ sbt = SBTStorage
    /\ sbt_factory = SBTFactoryStorage
    /\ deployed = {}

SpecOverflow == InitOverflow /\ [][Next]_vars

----------------------------------------------------------------------------
(* IssuerRegistry (src/issuer_registry/src/lib.rs) *)

\* msg_sender of a call to the registry (the test VM lets it be the zero address)
RegistrySender == {ZeroAddress, 1, 2}

registry_constructor(origin) ==
    /\ "issuer_registry" \notin deployed
    /\ LET result == IF origin = ZeroAddress THEN "AddressZeroNotAllowed" ELSE "Ok"
       IN /\ last' = Call("registry_constructor", origin, 0, ZeroAddress, 0, result)
          /\ IF result = "Ok"
             THEN /\ issuer_registry' = [issuer_registry EXCEPT !.owner = origin]
                  /\ deployed' = deployed \cup {"issuer_registry"}
             ELSE UNCHANGED <<issuer_registry, deployed>>
    /\ UNCHANGED <<staking, sbt, sbt_factory>>

\* a registration takes the place of the earlier ones
register_as_issuer_replaces(issuer_address) ==
    /\ "issuer_registry" \in deployed
    /\ LET result == IF issuer_address = ZeroAddress THEN "AddressZeroNotAllowed"
                     ELSE IF issuer_registry.is_registered[issuer_address]
                          THEN "AccountAlreadyRegistered"
                     ELSE "Ok"
       IN /\ last' = Call("register_as_issuer", issuer_address, 0, ZeroAddress, 0, result)
          /\ IF result = "Ok"
             THEN issuer_registry' =
                    [issuer_registry EXCEPT
                       !.is_registered = [a \in Address |-> a = issuer_address]]
             ELSE UNCHANGED issuer_registry
    /\ UNCHANGED <<staking, sbt, sbt_factory, deployed>>

register_as_issuer(issuer_address) ==
    /\ "issuer_registry" \in deployed
    /\ LET result == IF issuer_address = ZeroAddress THEN "AddressZeroNotAllowed"
                     ELSE IF issuer_registry.is_registered[issuer_address]
                          THEN "AccountAlreadyRegistered"
                     ELSE "Ok"
       IN /\ last' = Call("register_as_issuer", issuer_address, 0, ZeroAddress, 0, result)
          /\ IF result = "Ok"
             THEN issuer_registry' =
                    [issuer_registry EXCEPT !.is_registered[issuer_address] = TRUE]
             ELSE UNCHANGED issuer_registry
    /\ UNCHANGED <<staking, sbt, sbt_factory, deployed>>

\* the new owner is installed without having to accept
transfer_ownership_at_once(sender, new_owner) ==
    /\ "issuer_registry" \in deployed
    /\ LET current_owner == issuer_registry.owner
           result == IF current_owner # sender THEN "Unauthorized"
                     ELSE IF new_owner = ZeroAddress THEN "AddressZeroNotAllowed"
                     ELSE "Ok"
       IN /\ last' = Call("transfer_ownership", sender, 0, new_owner, 0, result)
          /\ IF result = "Ok"
             THEN issuer_registry' = [issuer_registry EXCEPT !.owner = new_owner]
             ELSE UNCHANGED issuer_registry
    /\ UNCHANGED <<staking, sbt, sbt_factory, deployed>>

transfer_ownership(sender, new_owner) ==
    /\ "issuer_registry" \in deployed
    /\ LET current_owner == issuer_registry.owner
           result == IF current_owner # sender THEN "Unauthorized"
                     ELSE IF new_owner = ZeroAddress THEN "AddressZeroNotAllowed"
                     ELSE "Ok"
       IN /\ last' = Call("transfer_ownership", sender, 0, new_owner, 0, result)
          /\ IF result = "Ok"
             THEN issuer_registry' = [issuer_registry EXCEPT !.pending_owner = new_owner]
             ELSE UNCHANGED issuer_registry
    /\ UNCHANGED <<staking, sbt, sbt_factory, deployed>>

\* the zero caller is not rejected
accept_ownership_no_zero_check(caller) ==
    /\ "issuer_registry" \in deployed
    /\ LET pending_owner == issuer_registry.pending_owner
           result == IF pending_owner # caller THEN "NotPendingOwner"
                     ELSE "Ok"
       IN /\ last' = Call("accept_ownership", caller, 0, ZeroAddress, 0, result)
          /\ IF result = "Ok"
             THEN issuer_registry' = [issuer_registry EXCEPT !.owner = pending_owner,
                                                            !.pending_owner = ZeroAddress]
             ELSE UNCHANGED issuer_registry
    /\ UNCHANGED <<staking, sbt, sbt_factory, deployed>>

accept_ownership(caller) ==
    /\ "issuer_registry" \in deployed
    /\ LET pending_owner == issuer_registry.pending_owner
           result == IF caller = ZeroAddress THEN "AddressZeroNotAllowed"
                     ELSE IF pending_owner # caller THEN "NotPendingOwner"
                     ELSE "Ok"
       IN /\ last' = Call("accept_ownership", caller, 0, ZeroAddress, 0, result)
          /\ IF result = "Ok"
             THEN issuer_registry' = [issuer_registry EXCEPT !.owner = pending_owner,
                                                            !.pending_owner = ZeroAddress]
             ELSE UNCHANGED issuer_registry
    /\ UNCHANGED <<staking, sbt, sbt_factory, deployed>>

is_issuer(issuer_address) == issuer_registry.is_registered[issuer_address]

InitRegistry == Init /\ env = SmallEnv

NextRegistry ==
    \/ \E origin \in Deployer : registry_constructor(origin)
    \/ \E s \in RegistrySender : register_as_issuer(s)
    \/ \E s \in RegistrySender, new_owner \in RegistrySender : transfer_ownership(s, new_owner)
    \/ \E s \in RegistrySender : accept_ownership(s)

SpecRegistry == InitRegistry /\ [][NextRegistry]_vars

----------------------------------------------------------------------------
(* SBT (src/sbt/src/lib.rs) *)

\* the addresses the owner is asked to authorize or to deauthorize
IssuerTarget == {ZeroAddress, 2}

\* the recipients of a mint
Recipient == {ZeroAddress, 1, 2}

\* token URIs: the empty string and one that is not
TokenURI == {"", "https://example.com/token/1"}

sbt_constructor(origin) ==
    /\ "sbt" \notin deployed
    /\ LET result == IF origin = ZeroAddress THEN "AddressZeroNotAllowed" ELSE "Ok"
       IN /\ last' = Call("sbt_constructor", origin, 0, ZeroAddress, 0, result)
          /\ IF result = "Ok"
             THEN /\ sbt' = [sbt EXCEPT !.owner = origin, !.next_token_id = 1]
                  /\ deployed' = deployed \cup {"sbt"}
             ELSE UNCHANGED <<sbt, deployed>>
    /\ UNCHANGED <<staking, issuer_registry, sbt_factory>>

balance_of(a) == sbt.token_counts[a]

owner_of(token_id) ==
    /\ "sbt" \in deployed
    /\ LET token_owner == sbt.token_owners[token_id]
       IN last' = IF token_owner = ZeroAddress
                  THEN Call("owner_of", ZeroAddress, token_id, ZeroAddress, 0, "TokenNotFound")
                  ELSE [Call("owner_of", ZeroAddress, token_id, ZeroAddress, 0, "Ok")
                          EXCEPT !.returned = token_owner]
    /\ UNCHANGED <<staking, issuer_registry, sbt, sbt_factory, deployed>>

token_uri(token_id) ==
    /\ "sbt" \in deployed
    /\ LET token_owner == sbt.token_owners[token_id]
       IN last' = IF token_owner = ZeroAddress
                  THEN Call("token_uri", ZeroAddress, token_id, ZeroAddress, 0, "TokenNotFound")
                  ELSE [Call("token_uri", ZeroAddress, token_id, ZeroAddress, 0, "Ok")
                          EXCEPT !.returned = sbt.token_uris[token_id]]
    /\ UNCHANGED <<staking, issuer_registry, sbt, sbt_factory, deployed>>

is_authorized_issuer(issuer) ==
    issuer = sbt.owner \/ sbt.authorized_issuers[issuer]

authorize_issuer(sender, issuer) ==
    /\ "sbt" \in deployed
    /\ LET result == IF sender # sbt.owner THEN "NotOwner"
                     ELSE IF issuer = ZeroAddress THEN "AddressZeroNotAllowed"
                     ELSE IF sbt.authorized_issuers[issuer] THEN "IssuerAlreadyAuthorized"
                     ELSE "Ok"
       IN /\ last' = Call("authorize_issuer", sender, 0, issuer, 0, result)
          /\ IF result = "Ok"
             THEN sbt' = [sbt EXCEPT !.authorized_issuers[issuer] = TRUE]
             ELSE UNCHANGED sbt
    /\ UNCHANGED <<staking, issuer_registry, sbt_factory, deployed>>

deauthorize_issuer(sender, issuer) ==
    /\ "sbt" \in deployed
    /\ LET result == IF sender # sbt.owner THEN "NotOwner"
                     ELSE IF ~sbt.authorized_issuers[issuer] THEN "IssuerNotAuthorized"
                     ELSE "Ok"
       IN /\ last' = Call("deauthorize_issuer", sender, 0, issuer, 0, result)
          /\ IF result = "Ok"
             THEN sbt' = [sbt EXCEPT !.authorized_issuers[issuer] = FALSE]
             ELSE UNCHANGED sbt
    /\ UNCHANGED <<staking, issuer_registry, sbt_factory, deployed>>

\* the recipient is checked before the caller
mint_check_recipient_first(sender, to, uri) ==
    IF to = ZeroAddress THEN "AddressZeroNotAllowed"
    ELSE IF ~is_authorized_issuer(sender) THEN "NotAuthorizedIssuer"
    ELSE IF uri = "" THEN "EmptyTokenURI"
    ELSE "Ok"

mint_check(sender, to, uri) ==
    IF ~is_authorized_issuer(sender) THEN "NotAuthorizedIssuer"
    ELSE IF to = ZeroAddress THEN "AddressZeroNotAllowed"
    ELSE IF uri = "" THEN "EmptyTokenURI"
    ELSE "Ok"

mint(sender, to, uri) ==
    /\ "sbt" \in deployed
    /\ sbt.next_token_id <= MaxTokens
    /\ LET result == mint_check(sender, to, uri)
           token_id == sbt.next_token_id
       IN IF result = "Ok"
          THEN /\ last' = [Call("mint", sender, 0, to, 0, result)
                             EXCEPT !.returned = token_id, !.text = <<uri>>]
               /\ sbt' = [sbt EXCEPT
                            !.token_owners[token_id] = to,
                            !.token_uris[token_id] = uri,
                            !.token_counts[to] = U256Add(sbt.token_counts[to], 1),
                            !.next_token_id = U256Add(token_id, 1)]
          ELSE /\ last' = [Call("mint", sender, 0, to, 0, result) EXCEPT !.text = <<uri>>]
               /\ UNCHANGED sbt
    /\ UNCHANGED <<staking, issuer_registry, sbt_factory, deployed>>

revoke_check(sender, token_id) ==
    IF ~is_authorized_issuer(sender) THEN "NotAuthorizedIssuer"
    ELSE IF sbt.token_owners[token_id] = ZeroAddress THEN "TokenNotFound"
    ELSE IF sender = sbt.token_owners[token_id] THEN "SelfRevocationNotAllowed"
    ELSE "Ok"

\* the id of a revoked token is given out again
revoke_frees_id(sender, token_id) ==
    /\ "sbt" \in deployed
    /\ LET result == revoke_check(sender, token_id)
           token_owner == sbt.token_owners[token_id]
           current_balance == sbt.token_counts[token_owner]
       IN /\ last' = Call("revoke", sender, token_id, ZeroAddress, 0, result)
          /\ IF result = "Ok"
             THEN sbt' = [sbt EXCEPT
                            !.token_owners[token_id] = ZeroAddress,
                            !.token_uris[token_id] = "",
                            !.token_counts[token_owner] =
                                IF current_balance > 0
                                THEN U256Sub(current_balance, 1)
                                ELSE current_balance,
                            !.next_token_id = token_id]
             ELSE UNCHANGED sbt
    /\ UNCHANGED <<staking, issuer_registry, sbt_factory, deployed>>

\* the count of the former owner is not reduced
revoke_keeps_count(sender, token_id) ==
    /\ "sbt" \in deployed
    /\ LET result == revoke_check(sender, token_id)
       IN /\ last' = Call("revoke", sender, token_id, ZeroAddress, 0, result)
          /\ IF result = "Ok"
             THEN sbt' = [sbt EXCEPT
                            !.token_owners[token_id] = ZeroAddress,
                            !.token_uris[token_id] = ""]
             ELSE UNCHANGED sbt
    /\ UNCHANGED <<staking, issuer_registry, sbt_factory, deployed>>

revoke(sender, token_id) ==
    /\ "sbt" \in deployed
    /\ LET result == revoke_check(sender, token_id)
           token_owner == sbt.token_owners[token_id]
           current_balance == sbt.token_counts[token_owner]
       IN /\ last' = Call("revoke", sender, token_id, ZeroAddress, 0, result)
          /\ IF result = "Ok"
             THEN sbt' = [sbt EXCEPT
                            !.token_owners[token_id] = ZeroAddress,
                            !.token_uris[token_id] = "",
                            !.token_counts[token_owner] =
                                IF current_balance > 0
                                THEN U256Sub(current_balance, 1)
                                ELSE current_balance]
             ELSE UNCHANGED sbt
    /\ UNCHANGED <<staking, issuer_registry, sbt_factory, deployed>>

InitSBT == Init /\ env = SmallEnv

NextSBT ==
    \/ \E origin \in Deployer : sbt_constructor(origin)
    \/ \E token_id \in TokenId : owner_of(token_id)
    \/ \E token_id \in TokenId : token_uri(token_id)
    \/ \E s \in Sender, issuer \in IssuerTarget : authorize_issuer(s, issuer)
    \/ \E s \in Sender, issuer \in IssuerTarget : deauthorize_issuer(s, issuer)
    \/ \E s \in Sender, to \in Recipient, uri \in TokenURI : mint(s, to, uri)
    \/ \E s \in Sender, token_id \in TokenId : revoke(s, token_id)

SpecSBT == InitSBT /\ [][NextSBT]_vars

----------------------------------------------------------------------------
(* SBTFactory (src/sbt_factory/src/lib.rs) *)

\* the address the SBT contract of this model is deployed at
SbtContract == CHOOSE a \in Untouched : TRUE

\* the addresses offered for registration: the SBT contract, an address
\* that holds no contract, and the zero address
SbtAddress == {ZeroAddress, 2, SbtContract}

\* msg_sender of a call to the factory (the test VM lets it be the zero address)
FactorySender == {ZeroAddress, 1, 2}

CollectionName == {"", "Test SBT"}

CollectionSymbol == {"", "TSBT"}

\* the owner of the contract at an address, as its owner() answers; the
\* zero address where no contract is
contract_owner(a) ==
    IF a = SbtContract /\ "sbt" \in deployed THEN sbt.owner ELSE ZeroAddress

\* the count is left as it is
record_sbt_collection_skips_count(issuer, name, symbol, sbt_address) ==
    [sbt_factory EXCEPT
       !.issuer_collections[issuer] =
           Append(sbt_factory.issuer_collections[issuer],
                  [name |-> name, symbol |-> symbol, sbt_address |-> sbt_address]),
       !.all_sbt_collections = Append(sbt_factory.all_sbt_collections, sbt_address),
       !.is_valid_sbt[sbt_address] = TRUE]

\* the storage after the call (which never fails)
record_sbt_collection(issuer, name, symbol, sbt_address) ==
    [sbt_factory EXCEPT
       !.issuer_collections[issuer] =
           Append(sbt_factory.issuer_collections[issuer],
                  [name |-> name, symbol |-> symbol, sbt_address |-> sbt_address]),
       !.all_sbt_collections = Append(sbt_factory.all_sbt_collections, sbt_address),
       !.is_valid_sbt[sbt_address] = TRUE,
       !.total_collections_count = U256Add(sbt_factory.total_collections_count, 1)]

factory_constructor ==
    /\ "sbt_factory" \notin deployed
    /\ last' = Call("factory_constructor", ZeroAddress, 0, ZeroAddress, 0, "Ok")
    /\ sbt_factory' = [sbt_factory EXCEPT !.total_collections_count = 0]
    /\ deployed' = deployed \cup {"sbt_factory"}
    /\ UNCHANGED <<staking, issuer_registry, sbt>>

register_sbt_collection(issuer, sbt_address, name, symbol) ==
    /\ "sbt_factory" \in deployed
    /\ LET result == IF issuer = ZeroAddress \/ sbt_address = ZeroAddress
                          THEN "AddressZeroNotAllowed"
                     ELSE IF name = "" \/ symbol = "" THEN "EmptyString"
                     ELSE IF sbt_factory.is_valid_sbt[sbt_address]
                          THEN "ContractAlreadyRegistered"
                     ELSE "Ok"
       IN /\ last' = [Call("register_sbt_collection", issuer, 0, sbt_address, 0, result)
                        EXCEPT !.text = <<name, symbol>>]
          /\ IF result = "Ok"
             THEN sbt_factory' = record_sbt_collection(issuer, name, symbol, sbt_address)
             ELSE UNCHANGED sbt_factory
    /\ UNCHANGED <<staking, issuer_registry, sbt, deployed>>

get_issuer_collections(issuer) ==
    [i \in DOMAIN sbt_factory.issuer_collections[issuer] |->
        <<sbt_factory.issuer_collections[issuer][i].name,
          sbt_factory.issuer_collections[issuer][i].symbol,
          sbt_factory.issuer_collections[issuer][i].sbt_address>>]

is_valid_sbt_contract(sbt_address) == sbt_factory.is_valid_sbt[sbt_address]

get_total_collections == sbt_factory.total_collections_count

InitFactory == Init /\ env = SmallEnv

\* the factory, and the deployment of the SBT contract it is asked to register
NextFactory ==
    \/ \E origin \in Deployer : sbt_constructor(origin)
    \/ factory_constructor
    \/ \E s \in FactorySender, a \in SbtAddress,
          name \in CollectionName, symbol \in CollectionSymbol :
            register_sbt_collection(s, a, name, symbol)

SpecFactory == InitFactory /\ [][NextFactory]_vars

\* the ledger with its accessors called between the operations; they change
\* nothing, so Spec reaches the same ledgers without them
InitRead == Init /\ env = SmallEnv

NextRead ==
    \/ Next
    \/ \E accessor \in Accessor \ AddressAccessor : read(accessor, ZeroAddress)
    \/ \E accessor \in AddressAccessor, u \in Queried : read(accessor, u)

SpecRead == InitRead /\ [][NextRead]_vars

----------------------------------------------------------------------------
(* Properties *)

\* the step is a call of `op` (every action records its call in last)
Called(op) == last'.op = op

Failed == last'.result # "Ok"

\* C1: in every state reachable from a successful construction, whatever
\* calls were made and whether they succeeded, total_staked is the sum of
\* stakes[a] over all addresses a.
C1_TotalStakedIsSum ==
    constructed => total_staked = SumOver(stakes, Address)

\* two accounts hold stake and one of them has just withdrawn part of it
C1_Witness ==
    /\ last.op = "withdraw" /\ last.result = "Ok" /\ last.amount > 0
    /\ \A a \in Sender : stakes[a] > 0

\* C2: in every reachable state total_reputation is the sum of
\* reputation_scores[a] over all addresses a; the clamp to zero in withdraw
\* never makes the account's decrease differ from the one taken off the total.
C2_TotalReputationIsSum ==
    constructed => total_reputation = SumOver(reputation_scores, Address)

\* a full withdrawal has taken the clamp's zero branch on a positive
\* reputation (100 staked at 50% had earned 50) while the other account
\* keeps its own
C2_Witness ==
    /\ last.op = "withdraw" /\ last.result = "Ok" /\ last.amount = 100
    /\ last.stake_before = 100 /\ last.reputation_before = 50
    /\ stakes[last.sender] = 0 /\ reputation_scores[last.sender] = 0
    /\ total_reputation > 0

\* C3: a call of constructor, stake, withdraw, set_minimum_stake,
\* blacklist_user or remove_from_blacklist that returns an error leaves the
\* whole ledger state as it was.
C3_ErrorLeavesLedgerUnchanged ==
    [][Failed => UNCHANGED ledger]_vars

\* a deposit below the minimum was rejected while the ledger holds stake
C3_Witness ==
    /\ last.op = "stake" /\ last.result = "InsufficientStake"
    /\ total_staked > 0 /\ stakes[last.sender] = last.stake_before

\* the result the documented order of stake's checks gives
C4_Expected(staker, amount) ==
    CASE blacklisted[staker] -> "UserBlacklisted"
      [] ~blacklisted[staker] /\ amount = 0 -> "InvalidAmount"
      [] ~blacklisted[staker] /\ amount # 0
           /\ stakes[staker] + amount < minimum_stake -> "InsufficientStake"
      [] OTHER -> "Ok"

\* C4: stake reports the first failing precondition in the order
\* UserBlacklisted, InvalidAmount, InsufficientStake, and succeeds in every
\* other case.
C4_StakeCheckOrder ==
    [][Called("stake") =>
          last'.result = C4_Expected(last'.sender, last'.amount)]_vars

\* a blacklisted caller sending no value, with a stake below the minimum, is
\* told it is blacklisted
C4_Witness ==
    /\ last.op = "stake" /\ last.result = "UserBlacklisted"
    /\ last.amount = 0 /\ blacklisted[last.sender]
    /\ stakes[last.sender] < minimum_stake

\* C5: a successful stake of amount by staker at time now adds amount to
\* stakes[staker] and total_staked, sets stake_timestamps[staker] to now, and
\* adds floor(amount * reputation_multiplier / 10000) to
\* reputation_scores[staker] and total_reputation.
C5_StakeEffect ==
    [][(Called("stake") /\ ~Failed) =>
          LET staker == last'.sender
              amount == last'.amount
              delta == (amount * reputation_multiplier) \div 10000
          IN /\ stakes'[staker] = stakes[staker] + amount
             /\ total_staked' = total_staked + amount
             /\ stake_timestamps'[staker] = now
             /\ reputation_scores'[staker] = reputation_scores[staker] + delta
             /\ total_reputation' = total_reputation + delta]_vars

\* 200 staked at multiplier 5000 on a fresh account: stake 200, reputation 100
C5_Witness ==
    /\ last.op = "stake" /\ last.result = "Ok" /\ last.amount = 200
    /\ reputation_multiplier = 5000
    /\ last.stake_before = 0 /\ last.reputation_before = 0
    /\ stakes[last.sender] = 200 /\ reputation_scores[last.sender] = 100
    /\ total_staked = 200 /\ total_reputation = 100

\* the result the documented order of withdraw's checks gives
C6_Expected(staker, amount) ==
    CASE blacklisted[staker] -> "UserBlacklisted"
      [] ~blacklisted[staker] /\ stakes[staker] = 0 -> "NoStakeToWithdraw"
      [] ~blacklisted[staker] /\ stakes[staker] # 0
           /\ amount > stakes[staker] -> "InsufficientBalance"
      [] ~blacklisted[staker] /\ stakes[staker] # 0
           /\ amount <= stakes[staker]
           /\ now < stake_timestamps[staker] + 86400 -> "TooEarlyToWithdraw"
      [] OTHER -> "Ok"

\* C6: withdraw reports the first failing precondition in the order
\* UserBlacklisted, NoStakeToWithdraw, InsufficientBalance,
\* TooEarlyToWithdraw; a request for more than the balance made during the
\* cooldown gets InsufficientBalance.
C6_WithdrawCheckOrder ==
    [][Called("withdraw") =>
          last'.result = C6_Expected(last'.sender, last'.amount)]_vars

\* more than the balance was asked for during the cooldown
C6_Witness ==
    /\ last.op = "withdraw" /\ last.result = "InsufficientBalance"
    /\ ~blacklisted[last.sender]
    /\ stakes[last.sender] > 0 /\ last.amount > stakes[last.sender]
    /\ now < stake_timestamps[last.sender] + 86400

\* C7: a successful withdraw of amount by a staker with stake s > 0 and
\* reputation r takes amount off stakes[staker] and total_staked and takes
\* floor(amount * r / s) off reputation_scores[staker] and total_reputation.
C7_WithdrawEffect ==
    [][(Called("withdraw") /\ ~Failed) =>
          LET staker == last'.sender
              amount == last'.amount
              s == stakes[staker]
              r == reputation_scores[staker]
              decay == (amount * r) \div s
          IN /\ s > 0
             /\ stakes'[staker] = s - amount
             /\ total_staked' = total_staked - amount
             /\ reputation_scores'[staker] = r - decay
             /\ total_reputation' = total_reputation - decay]_vars

\* stake 200 with reputation 100, 100 withdrawn: stake 100, reputation 50
C7_Witness ==
    /\ last.op = "withdraw" /\ last.result = "Ok" /\ last.amount = 100
    /\ last.stake_before = 200 /\ last.reputation_before = 100
    /\ stakes[last.sender] = 100 /\ reputation_scores[last.sender] = 50
    /\ total_staked = 100 /\ total_reputation = 50

\* the time of an account's most recent successful deposit
LatestDeposit(a) == deposit_times[a][1]

\* C8 as stated: right after a successful stake, at the same timestamp, a
\* withdraw of any positive amount by that staker fails with
\* TooEarlyToWithdraw.
C8_AnyPositiveAmountTooEarly ==
    [][(/\ last.op = "stake" /\ last.result = "Ok"
        /\ Called("withdraw") /\ last'.sender = last.sender
        /\ last'.amount > 0)
          => last'.result = "TooEarlyToWithdraw"]_vars

\* C8 amended: a withdraw of a positive amount up to the balance by a staker
\* that is not blacklisted fails with TooEarlyToWithdraw right after the
\* staker's successful stake and as long as less than 86400 seconds have
\* passed since its most recent deposit, and succeeds once 86400 seconds or
\* more have passed since that deposit.
C8_CooldownUpToBalance ==
    [][\A staker \in Sender :
          (/\ Called("withdraw") /\ last'.sender = staker
           /\ ~blacklisted[staker]
           /\ deposit_times[staker] # <<>>
           /\ last'.amount > 0 /\ last'.amount <= stakes[staker])
          => /\ (last.op = "stake" /\ last.result = "Ok" /\ last.sender = staker)
                    => last'.result = "TooEarlyToWithdraw"
             /\ now < LatestDeposit(staker) + 86400
                    => last'.result = "TooEarlyToWithdraw"
             /\ now >= LatestDeposit(staker) + 86400
                    => last'.result = "Ok"]_vars

\* the withdrawal succeeds at the very instant the cooldown ends
C8_Witness ==
    /\ last.op = "withdraw" /\ last.result = "Ok" /\ last.amount > 0
    /\ now = LatestDeposit(last.sender) + 86400

\* C9: every successful stake, a top-up after the cooldown included, sets
\* stake_timestamps[staker] to the current time, so that a withdraw of any
\* part of the balance by that staker (not blacklisted) fails with
\* TooEarlyToWithdraw until 86400 seconds after its most recent deposit.
C9_TopUpResetsCooldown ==
    [][\A staker \in Sender :
          /\ (Called("stake") /\ ~Failed /\ last'.sender = staker)
                => stake_timestamps'[staker] = now
          /\ (/\ Called("withdraw") /\ last'.sender = staker
              /\ ~blacklisted[staker]
              /\ deposit_times[staker] # <<>>
              /\ last'.amount <= stakes[staker]
              /\ now < LatestDeposit(staker) + 86400)
                => last'.result = "TooEarlyToWithdraw"]_vars

\* a staker whose deposit had passed its cooldown has topped up with less
\* than it held, and its whole balance is locked again
C9_Witness ==
    /\ last.op = "stake" /\ last.result = "Ok"
    /\ last.stake_before > last.amount
    /\ now >= last.timestamp_before + 86400
    /\ stake_timestamps[last.sender] = now
    /\ withdraw_check(last.sender, stakes[last.sender]) = "TooEarlyToWithdraw"

\* C10: the minimum is checked on the total after the deposit: a staker
\* that is not blacklisted and whose stake is at or above minimum_stake can
\* top up with every positive amount.
C10_TopUpAnyAmount ==
    [][\A staker \in Sender :
          (/\ Called("stake") /\ last'.sender = staker
           /\ ~blacklisted[staker]
           /\ stakes[staker] >= minimum_stake
           /\ last'.amount > 0)
          => last'.result = "Ok"]_vars

\* a top-up smaller than the minimum was accepted
C10_Witness ==
    /\ last.op = "stake" /\ last.result = "Ok"
    /\ last.amount < minimum_stake
    /\ last.stake_before >= minimum_stake

\* C11 as stated: with minimum_stake = 100 and a staker with no prior stake,
\* a deposit of 50 followed by a deposit of 60 succeeds on the second call
\* and leaves a total of 110.
C11_FiftyThenSixtySucceeds ==
    [][(/\ last.op = "stake" /\ last.amount = 50 /\ last.stake_before = 0
        /\ minimum_stake = 100
        /\ Called("stake") /\ last'.sender = last.sender /\ last'.amount = 60)
          => /\ last'.result = "Ok"
             /\ stakes'[last.sender] = 110]_vars

\* C11 amended: with minimum_stake = 100, a deposit of 50 or of 60 by a
\* staker (not blacklisted) with no stake fails with InsufficientStake and
\* leaves the stake at 0, so 50 followed by 60 fails twice; a deposit of 60
\* succeeds, leaving 110, when the staker already holds 50.
C11_GateOnTotal ==
    (/\ last.op = "stake" /\ minimum_stake = 100
     /\ ~blacklisted[last.sender])
    => /\ (last.stake_before = 0 /\ last.amount \in {50, 60})
            => /\ last.result = "InsufficientStake"
               /\ stakes[last.sender] = 0
       /\ (last.stake_before = 50 /\ last.amount = 60)
            => /\ last.result = "Ok"
               /\ stakes[last.sender] = 110

\* 60 was accepted on top of a held 50 against a minimum of 100
C11_Witness ==
    /\ last.op = "stake" /\ last.result = "Ok" /\ last.amount = 60
    /\ last.stake_before = 50 /\ minimum_stake = 100
    /\ stakes[last.sender] = 110

\* what stake returns to a caller that was never blacklisted
C12_StakeUnlisted(staker, amount) ==
    IF amount = 0 THEN "InvalidAmount"
    ELSE IF stakes[staker] + amount < minimum_stake THEN "InsufficientStake"
    ELSE "Ok"

\* what withdraw returns to a caller that was never blacklisted
C12_WithdrawUnlisted(staker, amount) ==
    IF stakes[staker] = 0 THEN "NoStakeToWithdraw"
    ELSE IF amount > stakes[staker] THEN "InsufficientBalance"
    ELSE IF now < stake_timestamps[staker] + 86400 THEN "TooEarlyToWithdraw"
    ELSE "Ok"

\* C12: while an address is blacklisted its stake and withdraw calls fail
\* with UserBlacklisted whatever the amount, balance, minimum or cooldown;
\* blacklist_user and remove_from_blacklist change no stake, reputation,
\* timestamp or total; an address that is not blacklisted, removed from the
\* blacklist or never on it, gets the result its balances alone decide.
C12_BlacklistBlocksBothWays ==
    [][/\ ((Called("stake") \/ Called("withdraw")) /\ blacklisted[last'.sender])
            => last'.result = "UserBlacklisted"
       /\ (Called("blacklist_user") \/ Called("remove_from_blacklist"))
            => UNCHANGED <<stakes, reputation_scores, stake_timestamps,
                           total_staked, total_reputation>>
       /\ (Called("stake") /\ ~blacklisted[last'.sender])
            => last'.result = C12_StakeUnlisted(last'.sender, last'.amount)
       /\ (Called("withdraw") /\ ~blacklisted[last'.sender])
            => last'.result = C12_WithdrawUnlisted(last'.sender, last'.amount)]_vars

\* an address holding stake and reputation has just been taken off the
\* blacklist with its balances as they were, and may withdraw all of it
C12_Witness ==
    /\ last.op = "remove_from_blacklist" /\ last.result = "Ok"
    /\ ~blacklisted[last.user]
    /\ stakes[last.user] > 0 /\ reputation_scores[last.user] > 0
    /\ withdraw_check(last.user, stakes[last.user]) = "Ok"

\* C13: set_minimum_stake, blacklist_user and remove_from_blacklist called
\* by anyone but the owner fail with NotOwner and change nothing, whatever
\* the arguments: the owner check comes before the zero-address check and
\* the not-blacklisted check.
C13_OwnerCheckFirst ==
    [][(/\ \/ Called("set_minimum_stake")
           \/ Called("blacklist_user")
           \/ Called("remove_from_blacklist")
        /\ last'.sender # owner)
          => /\ last'.result = "NotOwner"
             /\ UNCHANGED ledger]_vars

\* a caller that is not the owner asked to blacklist the zero address
C13_Witness ==
    /\ last.op = "blacklist_user" /\ last.result = "NotOwner"
    /\ last.sender # owner /\ last.user = ZeroAddress

\* C14: each successful withdraw pays its amount back to the caller, so in
\* every reachable state the value the contract holds (received by
\* successful stake calls, less what it paid out) equals total_staked.
C14_BalanceIsTotalStaked ==
    constructed => balance = total_staked

\* C15: no subtraction of a withdraw that passed its checks underflows: in
\* every reachable state each stake is at most total_staked and each score
\* at most total_reputation, and a successful withdraw has
\* amount <= stakes[staker] and takes off the total a reputation_decrease
\* that is at most reputation_scores[staker]; no stake, score or total is
\* negative or wrapped.
C15_NoUnderflow ==
    [][/\ \A a \in Address :
             /\ 0 <= stakes'[a] /\ stakes'[a] <= total_staked'
             /\ 0 <= reputation_scores'[a]
             /\ reputation_scores'[a] <= total_reputation'
       /\ total_staked' <= balance'
       /\ (Called("withdraw") /\ ~Failed) =>
             LET staker == last'.sender
                 amount == last'.amount
                 reputation_decrease == total_reputation - total_reputation'
             IN /\ amount <= stakes[staker]
                /\ stakes[staker] <= total_staked
                /\ 0 <= reputation_decrease
                /\ reputation_decrease <= reputation_scores[staker]
                /\ reputation_scores[staker] <= total_reputation
                /\ stakes'[staker] = stakes[staker] - amount
                /\ total_staked' = total_staked - amount
                /\ reputation_scores'[staker] =
                       reputation_scores[staker] - reputation_decrease]_vars

\* one of two stakers has withdrawn all it held, taking its whole score off
\* a total that the other staker's score keeps positive
C15_Witness ==
    /\ last.op = "withdraw" /\ last.result = "Ok"
    /\ last.amount = last.stake_before /\ last.reputation_before > 0
    /\ stakes[last.sender] = 0 /\ reputation_scores[last.sender] = 0
    /\ total_staked > 0 /\ total_reputation > 0

\* C16: arithmetic overflow is never silent: a stake whose
\* stakes[staker] + amount, total_staked + amount or
\* amount * reputation_multiplier passes the largest value of the word, and
\* a withdraw whose amount * reputation_scores[staker] does, fails and
\* leaves the state unchanged.
C16_OverflowNeverSilent ==
    [][/\ (/\ Called("stake")
           /\ \/ stakes[last'.sender] + last'.amount >= U256Modulus
              \/ total_staked + last'.amount >= U256Modulus
              \/ last'.amount * reputation_multiplier >= U256Modulus)
            => (Failed /\ UNCHANGED ledger)
       /\ (/\ Called("withdraw")
           /\ last'.amount * reputation_scores[last'.sender] >= U256Modulus)
            => (Failed /\ UNCHANGED ledger)]_vars

\* C17: reputation_multiplier <= 50000 in every reachable state: the
\* constructor rejects a larger value (with InvalidMultiplier when the
\* initiator is a real address) and no later step changes the multiplier.
C17_MultiplierCapped ==
    [][/\ reputation_multiplier' <= MAX_MULTIPLIER
       /\ constructed => reputation_multiplier' = reputation_multiplier
       /\ (Called("constructor") /\ last'.multiplier > MAX_MULTIPLIER)
            => /\ Failed
               /\ ~constructed'
               /\ last'.sender # ZeroAddress
                    => last'.result = "InvalidMultiplier"]_vars

C17_Witness ==
    /\ last.op = "constructor"
    /\ last.sender # ZeroAddress
    /\ last.multiplier > MAX_MULTIPLIER
    /\ last.result = "InvalidMultiplier"
    /\ ~constructed

\* C18: the constructor fails with AddressZeroNotAllowed for the zero
\* initiator (whatever the multiplier), else with InvalidMultiplier for a
\* multiplier above 50000; otherwise it sets owner, minimum_stake and
\* reputation_multiplier as given and both totals to 0.
C18_ConstructorChecksAndEffect ==
    [][Called("constructor") =>
         /\ last'.result =
               IF last'.sender = ZeroAddress THEN "AddressZeroNotAllowed"
               ELSE IF last'.multiplier > MAX_MULTIPLIER THEN "InvalidMultiplier"
               ELSE "Ok"
         /\ Failed => (UNCHANGED ledger /\ ~constructed')
         /\ ~Failed => /\ constructed'
                       /\ owner' = last'.sender
                       /\ minimum_stake' = last'.amount
                       /\ reputation_multiplier' = last'.multiplier
                       /\ total_staked' = 0
                       /\ total_reputation' = 0]_vars

C18_Witness ==
    /\ last.op = "constructor"
    /\ last.sender = ZeroAddress
    /\ last.multiplier > MAX_MULTIPLIER
    /\ last.result = "AddressZeroNotAllowed"

\* C19: set_minimum_stake by the owner succeeds for every value and changes
\* only minimum_stake; the minimum is read by stake alone, which rejects
\* with InsufficientStake exactly the deposits whose resulting balance is
\* below it.
C19_SetMinimumStakeFrame ==
    [][/\ (Called("set_minimum_stake") /\ last'.sender = owner)
            => /\ ~Failed
               /\ minimum_stake' = last'.amount
               /\ UNCHANGED <<owner, total_staked, reputation_multiplier,
                              stakes, reputation_scores, stake_timestamps,
                              blacklisted, total_reputation>>
       /\ (Called("stake") /\ last'.result = "InsufficientStake")
            => stakes[last'.sender] + last'.amount < minimum_stake
       /\ (Called("stake") /\ ~Failed)
            => stakes[last'.sender] + last'.amount >= minimum_stake
       /\ Called("withdraw") => last'.result # "InsufficientStake"]_vars

C19_Witness ==
    /\ last.op = "set_minimum_stake"
    /\ last.sender = owner
    /\ last.result = "Ok"
    /\ minimum_stake = last.amount
    /\ \E a \in Address : 0 < stakes[a] /\ stakes[a] < minimum_stake

\* C20: blacklist_user by the owner succeeds on every non-zero address,
\* already blacklisted or not (then the state stays as it was), and fails
\* with AddressZeroNotAllowed on the zero address; remove_from_blacklist by
\* the owner fails with UserNotBlacklisted on an address that is not
\* blacklisted and otherwise clears the flag.
C20_BlacklistGuardsAsymmetric ==
    [][/\ (Called("blacklist_user") /\ last'.sender = owner)
            => IF last'.user = ZeroAddress
               THEN last'.result = "AddressZeroNotAllowed" /\ UNCHANGED ledger
               ELSE /\ ~Failed
                    /\ blacklisted' = [blacklisted EXCEPT ![last'.user] = TRUE]
                    /\ blacklisted[last'.user] => UNCHANGED ledger
       /\ (Called("remove_from_blacklist") /\ last'.sender = owner)
            => IF ~blacklisted[last'.user]
               THEN last'.result = "UserNotBlacklisted" /\ UNCHANGED ledger
               ELSE /\ ~Failed
                    /\ blacklisted' = [blacklisted EXCEPT ![last'.user] = FALSE]]_vars

C20_Witness ==
    /\ last.op = "blacklist_user"
    /\ last.sender = owner
    /\ last.user # ZeroAddress
    /\ last.listed_before
    /\ last.result = "Ok"
    /\ blacklisted[last.user]

Withdrawable(a) ==
    /\ stakes[a] > 0
    /\ ~blacklisted[a]
    /\ now >= stake_timestamps[a] + COOLDOWN

\* C21: the clock never goes back; a withdraw of an amount up to the stake by
\* a staked, not blacklisted account succeeds exactly when now has reached
\* stake_timestamps + 86400; an account that is withdrawable stays so until
\* its own successful stake, its stake reaching 0 or its being blacklisted,
\* and no call by another account that is not the owner ends it.
C21_Lifecycle ==
    [][/\ now' >= now
       /\ \A a \in Sender :
            /\ (/\ Called("withdraw")
                /\ last'.sender = a
                /\ stakes[a] > 0
                /\ ~blacklisted[a]
                /\ last'.amount <= stakes[a])
                 => (~Failed <=> now >= stake_timestamps[a] + COOLDOWN)
            /\ (Withdrawable(a) /\ ~Withdrawable(a)')
                 => \/ Called("stake") /\ last'.sender = a /\ ~Failed
                    \/ stakes'[a] = 0
                    \/ blacklisted'[a]
            /\ (/\ Withdrawable(a)
                /\ last'.op # "none"
                /\ last'.sender # a
                /\ last'.sender # owner)
                 => Withdrawable(a)']_vars

C21_Witness ==
    /\ last.op = "withdraw"
    /\ last.result = "Ok"
    /\ last.amount > 0
    /\ now = last.timestamp_before + COOLDOWN
    /\ Withdrawable(last.sender)
    /\ \E b \in Sender : b # last.sender /\ stakes[b] > 0 /\ ~Withdrawable(b)

\* C22: the nine read accessors never fail and never change the state; each
\* returns the stored value, which for an address that never called the
\* ledger and was never named in a call is 0 (stake_of, reputation_of,
\* stake_timestamp) or false (is_blacklisted).
C22_AccessorsReadOnly ==
    [][last'.op \in Accessor =>
         /\ ~Failed
         /\ UNCHANGED <<ledger, constructed, balance, now, deposit_times>>
         /\ last'.op = "stake_of" => last'.returned = stakes[last'.user]
         /\ last'.op = "reputation_of" => last'.returned = reputation_scores[last'.user]
         /\ last'.op = "stake_timestamp" => last'.returned = stake_timestamps[last'.user]
         /\ last'.op = "is_blacklisted" => last'.returned = blacklisted[last'.user]
         /\ last'.op = "owner" => last'.returned = owner
         /\ last'.op = "total_staked" => last'.returned = total_staked
         /\ last'.op = "minimum_stake" => last'.returned = minimum_stake
         /\ last'.op = "reputation_multiplier" => last'.returned = reputation_multiplier
         /\ last'.op = "total_reputation" => last'.returned = total_reputation
         /\ last'.user \in Untouched =>
              /\ last'.op \in {"stake_of", "reputation_of", "stake_timestamp"}
                   => last'.returned = 0
              /\ last'.op = "is_blacklisted" => last'.returned = FALSE]_vars

C22_Witness ==
    /\ last.op = "stake_timestamp"
    /\ last.user \in Untouched
    /\ last.returned = 0
    /\ last.result = "Ok"
    /\ now > 0
    /\ total_staked > 0

\* C23: a successful transfer_ownership(new_owner) is made by the owner, sets
\* pending_owner to new_owner and leaves owner unchanged; the owner of the
\* deployed registry changes only in a successful accept_ownership by the
\* pending owner, after which owner is that caller and pending_owner is the
\* zero address.
C23_TwoStepOwnership ==
    [][/\ (Called("transfer_ownership") /\ ~Failed)
            => /\ last'.sender = issuer_registry.owner
               /\ issuer_registry'.pending_owner = last'.user
               /\ issuer_registry'.owner = issuer_registry.owner
       /\ (/\ "issuer_registry" \in deployed
           /\ issuer_registry'.owner # issuer_registry.owner)
            => /\ Called("accept_ownership")
               /\ ~Failed
               /\ last'.sender = issuer_registry.pending_owner
       /\ (Called("accept_ownership") /\ ~Failed)
            => /\ issuer_registry'.owner = last'.sender
               /\ issuer_registry'.pending_owner = ZeroAddress]_vars

C23_Witness ==
    /\ last.op = "accept_ownership"
    /\ last.result = "Ok"
    /\ issuer_registry.owner = last.sender
    /\ issuer_registry.owner \notin Deployer
    /\ issuer_registry.pending_owner = ZeroAddress

\* C24: transfer_ownership fails with Unauthorized for a caller that is not
\* the owner and, for the owner, with AddressZeroNotAllowed for a zero
\* new_owner; accept_ownership fails with AddressZeroNotAllowed for the zero
\* caller and with NotPendingOwner for any other caller that is not the
\* pending owner, a pending_owner of zero included; a failure leaves owner
\* and pending_owner unchanged.
C24_OwnershipGuards ==
    [][/\ Called("transfer_ownership")
            => last'.result =
                 IF last'.sender # issuer_registry.owner THEN "Unauthorized"
                 ELSE IF last'.user = ZeroAddress THEN "AddressZeroNotAllowed"
                 ELSE "Ok"
       /\ Called("accept_ownership")
            => last'.result =
                 IF last'.sender = ZeroAddress THEN "AddressZeroNotAllowed"
                 ELSE IF last'.sender # issuer_registry.pending_owner THEN "NotPendingOwner"
                 ELSE "Ok"
       /\ (last'.op \in {"transfer_ownership", "accept_ownership"} /\ Failed)
            => /\ issuer_registry'.owner = issuer_registry.owner
               /\ issuer_registry'.pending_owner = issuer_registry.pending_owner]_vars

C24_Witness ==
    /\ last.op = "accept_ownership"
    /\ last.sender # ZeroAddress
    /\ last.result = "NotPendingOwner"
    /\ issuer_registry.pending_owner = ZeroAddress
    /\ issuer_registry.owner # ZeroAddress

\* C25: register_as_issuer by a non-zero caller that is not registered
\* succeeds and makes is_issuer(caller) true, touching no other caller's
\* registration; by a registered caller it fails with
\* AccountAlreadyRegistered; is_issuer(a), once true, is true ever after.
C25_Registration ==
    [][/\ Called("register_as_issuer")
            => /\ last'.result =
                     IF last'.sender = ZeroAddress THEN "AddressZeroNotAllowed"
                     ELSE IF is_issuer(last'.sender) THEN "AccountAlreadyRegistered"
                     ELSE "Ok"
               /\ ~Failed => issuer_registry'.is_registered =
                     [issuer_registry.is_registered EXCEPT ![last'.sender] = TRUE]
               /\ Failed => UNCHANGED issuer_registry
       /\ \A a \in Address : is_issuer(a) => issuer_registry'.is_registered[a]]_vars

C25_Witness ==
    /\ last.op = "register_as_issuer"
    /\ last.result = "AccountAlreadyRegistered"
    /\ is_issuer(last.sender)
    /\ \E a \in RegistrySender \ {ZeroAddress, last.sender} : is_issuer(a)

\* C26: a successful mint returns next_token_id, which starts at 1 and grows
\* by one with every mint and is never lowered, so that ids come out as
\* 1, 2, 3, ... and none twice; the stored owner of an id changes only from
\* the zero address to the recipient of the mint that returns this id, and
\* from that recipient to the zero address in a revoke of this id; an id at
\* or above next_token_id has no owner.
C26_PermanentlyBound ==
    [][/\ (Called("sbt_constructor") /\ ~Failed) => sbt'.next_token_id = 1
       /\ (Called("mint") /\ ~Failed)
            => /\ last'.returned = sbt.next_token_id
               /\ sbt'.next_token_id = sbt.next_token_id + 1
               /\ sbt.token_owners[last'.returned] = ZeroAddress
               /\ sbt'.token_owners[last'.returned] = last'.user
       /\ ("sbt" \in deployed /\ ~(Called("mint") /\ ~Failed))
            => sbt'.next_token_id = sbt.next_token_id
       /\ \A t \in TokenId :
            /\ t >= sbt'.next_token_id => sbt'.token_owners[t] = ZeroAddress
            /\ sbt'.token_owners[t] # sbt.token_owners[t]
                 => \/ /\ Called("mint")
                       /\ ~Failed
                       /\ t = sbt.next_token_id
                       /\ sbt.token_owners[t] = ZeroAddress
                       /\ sbt'.token_owners[t] = last'.user
                       /\ last'.user # ZeroAddress
                    \/ /\ Called("revoke")
                       /\ ~Failed
                       /\ t = last'.amount
                       /\ t < sbt.next_token_id
                       /\ sbt'.token_owners[t] = ZeroAddress]_vars

C26_Witness ==
    /\ last.op = "mint"
    /\ last.result = "Ok"
    /\ last.returned > 1
    /\ sbt.token_owners[last.returned] = last.user
    /\ \E t \in TokenId : t < last.returned /\ t > 0 /\ sbt.token_owners[t] = ZeroAddress

\* C27: balance_of(a) is the number of token ids whose stored owner is a, for
\* every address a that can own a token (the zero address owns none).
C27_BalanceIsTokenCount ==
    /\ balance_of(ZeroAddress) = 0
    /\ \A a \in Address \ {ZeroAddress} :
         balance_of(a) = Cardinality({t \in TokenId : sbt.token_owners[t] = a})

C27_Witness ==
    /\ last.op = "revoke"
    /\ last.result = "Ok"
    /\ \E a \in Address : balance_of(a) > 0
    /\ \E t \in TokenId : t < sbt.next_token_id /\ t > 0 /\ sbt.token_owners[t] = ZeroAddress

\* C28: mint and revoke answer NotAuthorizedIssuer to a caller that is
\* neither the owner nor an authorized issuer, before any other check; mint
\* then rejects the zero recipient, then the empty URI; revoke rejects a
\* token without owner with TokenNotFound and a token owned by the caller
\* with SelfRevocationNotAllowed; after a successful revoke the id has no
\* owner, and for an id without owner owner_of and token_uri fail with
\* TokenNotFound.
C28_MintRevokeGuards ==
    [][/\ Called("mint")
            => last'.result =
                 IF ~(\/ last'.sender = sbt.owner
                      \/ sbt.authorized_issuers[last'.sender]) THEN "NotAuthorizedIssuer"
                 ELSE IF last'.user = ZeroAddress THEN "AddressZeroNotAllowed"
                 ELSE IF last'.text = <<"">> THEN "EmptyTokenURI"
                 ELSE "Ok"
       /\ Called("revoke")
            => /\ last'.result =
                     IF ~(\/ last'.sender = sbt.owner
                          \/ sbt.authorized_issuers[last'.sender]) THEN "NotAuthorizedIssuer"
                     ELSE IF sbt.token_owners[last'.amount] = ZeroAddress THEN "TokenNotFound"
                     ELSE IF sbt.token_owners[last'.amount] = last'.sender
                          THEN "SelfRevocationNotAllowed"
                     ELSE "Ok"
               /\ ~Failed => sbt'.token_owners[last'.amount] = ZeroAddress
               /\ Failed => UNCHANGED sbt
       /\ last'.op \in {"owner_of", "token_uri"}
            => /\ UNCHANGED sbt
               /\ Failed <=> sbt.token_owners[last'.amount] = ZeroAddress
               /\ Failed => last'.result = "TokenNotFound"]_vars

C28_Witness ==
    /\ last.op = "revoke"
    /\ last.result = "TokenNotFound"
    /\ is_authorized_issuer(last.sender)
    /\ last.amount > 0
    /\ last.amount < sbt.next_token_id

\* C29: register_sbt_collection succeeds only for a caller that owns the SBT
\* contract at sbt_address.
C29_OnlyOwnerRegisters ==
    [][(Called("register_sbt_collection") /\ ~Failed)
         => contract_owner(last'.user) = last'.sender]_vars

\* C30: get_total_collections is the number of successful registrations (it
\* starts at 0 and grows by one with each of them and with nothing else) and
\* equals the length of all_sbt_collections, the number of addresses with
\* is_valid_sbt_contract true and the sum of the lengths of the issuers'
\* lists; no address is in all_sbt_collections twice, a registration of a
\* registered address fails (with ContractAlreadyRegistered when the caller
\* and the strings pass the earlier checks), and a failed registration
\* changes nothing.
C30_CollectionsCounted ==
    [][/\ get_total_collections' = Len(sbt_factory'.all_sbt_collections)
       /\ get_total_collections' =
            Cardinality({a \in Address : sbt_factory'.is_valid_sbt[a]})
       /\ get_total_collections' =
            SumOver([a \in Address |-> Len(sbt_factory'.issuer_collections[a])], Address)
       /\ \A i, j \in DOMAIN sbt_factory'.all_sbt_collections :
            sbt_factory'.all_sbt_collections[i] = sbt_factory'.all_sbt_collections[j]
              => i = j
       /\ get_total_collections' =
            IF Called("register_sbt_collection") /\ ~Failed
            THEN get_total_collections + 1
            ELSE get_total_collections
       /\ Called("register_sbt_collection")
            => /\ is_valid_sbt_contract(last'.user) => Failed
               /\ (/\ is_valid_sbt_contract(last'.user)
                   /\ last'.sender # ZeroAddress
                   /\ "" \notin {last'.text[1], last'.text[2]})
                    => last'.result = "ContractAlreadyRegistered"
               /\ Failed => UNCHANGED sbt_factory
               /\ ~Failed => /\ sbt_factory'.is_valid_sbt[last'.user]
                             /\ Len(sbt_factory'.issuer_collections[last'.sender]) =
                                  Len(get_issuer_collections(last'.sender)) + 1]_vars

C30_Witness ==
    /\ last.op = "register_sbt_collection"
    /\ last.result = "ContractAlreadyRegistered"
    /\ last.sender # ZeroAddress
    /\ get_total_collections = 2
    /\ \E a, b \in Address :
         /\ a # b
         /\ Len(get_issuer_collections(a)) = 1
         /\ Len(get_issuer_collections(b)) = 1

\* C31: in every reachable state an account without stake has no
\* reputation: the withdrawal that empties the stake removes all of it.
C31_NoStakeNoReputation ==
    \A a \in Address : stakes[a] = 0 => reputation_scores[a] = 0

\* an emptying withdrawal after a partial one: the account held more
\* reputation than one deposit of its stake earns, which only a partial
\* withdrawal leaves
C31_Witness ==
    /\ last.op = "withdraw"
    /\ last.result = "Ok"
    /\ last.amount = last.stake_before
    /\ last.reputation_before * BASIS_POINTS > last.stake_before * reputation_multiplier
    /\ stakes[last.sender] = 0
    /\ reputation_scores[last.sender] = 0

\* C32 as claimed: in every reachable state and for every account,
\* reputation_scores[a] * 10000 <= stakes[a] * reputation_multiplier.
C32_ReputationProportional ==
    \A a \in Address :
        reputation_scores[a] * BASIS_POINTS <= stakes[a] * reputation_multiplier

\* the multiplier in whole points per staked unit, rounded up
PointsPerUnit == (reputation_multiplier + BASIS_POINTS - 1) \div BASIS_POINTS

\* C32 as amended: in every reachable state and for every account,
\* reputation_scores[a] <= stakes[a] * ceil(reputation_multiplier / 10000);
\* a deposit adds at most the proportional reputation, and a withdrawal,
\* which rounds the decrease down, keeps the account within that bound.
C32_ReputationBoundedByStake ==
    \A a \in Address : reputation_scores[a] <= stakes[a] * PointsPerUnit

C32_Witness ==
    /\ last.op = "withdraw"
    /\ last.result = "Ok"
    /\ stakes[last.sender] > 0
    /\ reputation_scores[last.sender] * BASIS_POINTS
         > stakes[last.sender] * reputation_multiplier
    /\ reputation_scores[last.sender] = stakes[last.sender] * PointsPerUnit

\* the amounts a withdrawal is split into
Pieces == (0 .. MaxSupply) \cup env.amounts

\* C33: rounding in withdraw favours the staker. From every reachable stake
\* s and reputation r of an account, and for all a, b with a + b <= s,
\* withdrawing a and then b leaves at least the reputation that one
\* withdrawal of a + b leaves, and the same stake; a successful withdraw
\* writes exactly that reputation and stake and keeps the timestamp, so the
\* second withdrawal is allowed whenever the first was.
C33_SplitWithdrawFavoursStaker ==
    /\ \A acct \in Address : \A a \in Pieces : \A b \in Pieces :
          a + b <= stakes[acct] =>
              LET s == stakes[acct]
                  r == reputation_scores[acct]
                  s1 == U256Sub(s, a)
                  r1 == reputation_after_withdraw(r, s, a)
              IN /\ reputation_after_withdraw(r1, s1, b)
                      >= reputation_after_withdraw(r, s, U256Add(a, b))
                 /\ U256Sub(s1, b) = U256Sub(s, U256Add(a, b))
    /\ last.op = "withdraw" /\ last.result = "Ok" =>
          /\ reputation_scores[last.sender] =
                 reputation_after_withdraw(last.reputation_before, last.stake_before,
                                           last.amount)
          /\ stakes[last.sender] = U256Sub(last.stake_before, last.amount)
          /\ stake_timestamps[last.sender] = last.timestamp_before
          /\ ~blacklisted[last.sender]

\* after a partial withdrawal, a stake from which two further withdrawals
\* of one unit keep strictly more reputation than one withdrawal of two
C33_Witness ==
    /\ last.op = "withdraw"
    /\ last.result = "Ok"
    /\ last.amount > 0
    /\ stakes[last.sender] >= 2
    /\ LET s == stakes[last.sender]
           r == reputation_scores[last.sender]
       IN reputation_after_withdraw(reputation_after_withdraw(r, s, 1), s - 1, 1)
              > reputation_after_withdraw(r, s, 2)

\* C34: while blacklisted[a] is true, the stake, reputation and timestamp of
\* a are constant across every step; a withdraw or stake by a fails with
\* UserBlacklisted, and the only step that clears the flag is a successful
\* remove_from_blacklist(a) by the owner.
C34_BlacklistedFrozen ==
    [][\A a \in Address :
          blacklisted[a] =>
              /\ stakes'[a] = stakes[a]
              /\ reputation_scores'[a] = reputation_scores[a]
              /\ stake_timestamps'[a] = stake_timestamps[a]
              /\ (Called("withdraw") \/ Called("stake")) /\ last'.sender = a =>
                     last'.result = "UserBlacklisted"
              /\ ~blacklisted'[a] =>
                     /\ Called("remove_from_blacklist")
                     /\ ~Failed
                     /\ last'.sender = owner
                     /\ last'.user = a
    ]_vars

\* the owner has just taken a staker past the cooldown off the blacklist:
\* the stake it held throughout is withdrawable again
C34_Witness ==
    /\ last.op = "remove_from_blacklist"
    /\ last.result = "Ok"
    /\ last.listed_before
    /\ reputation_scores[last.user] > 0
    /\ Withdrawable(last.user)

\* C35: withdraw is never gated by minimum_stake: a withdraw by a
\* non-blacklisted staker past the cooldown of any amount up to its stake
\* succeeds and leaves stake - amount, whatever minimum_stake is.
C35_WithdrawIgnoresMinimum ==
    [][Called("withdraw") /\ Withdrawable(last'.sender)
          /\ last'.amount <= stakes[last'.sender] =>
              /\ ~Failed
              /\ stakes'[last'.sender] = stakes[last'.sender] - last'.amount
    ]_vars

\* a successful withdrawal from a stake that a raised minimum had already
\* left below it, leaving a positive stake further below the minimum
C35_Witness ==
    /\ last.op = "withdraw"
    /\ last.result = "Ok"
    /\ last.amount > 0
    /\ last.stake_before < minimum_stake
    /\ stakes[last.sender] > 0
    /\ stakes[last.sender] < minimum_stake

\* C36: withdraw(0) is not rejected as an invalid amount: for a
\* non-blacklisted staker with positive stake it fails with
\* TooEarlyToWithdraw during the cooldown and succeeds after it, and a
\* successful withdraw(0) leaves the whole ledger unchanged; stake(0) by a
\* non-blacklisted account fails with InvalidAmount.
C36_WithdrawZero ==
    [][/\ Called("withdraw") /\ last'.amount = 0 /\ ~blacklisted[last'.sender]
             /\ stakes[last'.sender] > 0 =>
              /\ last'.result = IF now < stake_timestamps[last'.sender] + COOLDOWN
                                THEN "TooEarlyToWithdraw" ELSE "Ok"
              /\ UNCHANGED ledger
       /\ Called("stake") /\ last'.amount = 0 /\ ~blacklisted[last'.sender] =>
              last'.result = "InvalidAmount"
    ]_vars

C36_Witness ==
    /\ last.op = "withdraw"
    /\ last.amount = 0
    /\ last.result = "Ok"
    /\ stakes[last.sender] > 0
    /\ reputation_scores[last.sender] > 0
    /\ total_staked > 0

\* C37: once the ledger is initialized, no step changes owner or
\* reputation_multiplier.
C37_OwnerAndMultiplierFixed ==
    [][constructed =>
          /\ owner' = owner
          /\ reputation_multiplier' = reputation_multiplier
    ]_vars

\* every kind of call has had its chance: a stake is held, an account is
\* blacklisted, and the owner has just changed the minimum
C37_Witness ==
    /\ constructed
    /\ owner # ZeroAddress
    /\ reputation_multiplier > 0
    /\ last.op = "set_minimum_stake"
    /\ last.result = "Ok"
    /\ total_staked > 0
    /\ \E a \in Address : blacklisted[a]

\* C38: a successful stake or withdraw by a leaves every other account's
\* stake, reputation and timestamp, all blacklist flags, owner,
\* minimum_stake and reputation_multiplier unchanged; withdraw also leaves
\* the timestamp of a unchanged, and stake sets it.
C38_StakeWithdrawFrame ==
    [][(Called("stake") \/ Called("withdraw")) /\ ~Failed =>
          /\ \A b \in Address \ {last'.sender} :
                 /\ stakes'[b] = stakes[b]
                 /\ reputation_scores'[b] = reputation_scores[b]
                 /\ stake_timestamps'[b] = stake_timestamps[b]
          /\ blacklisted' = blacklisted
          /\ owner' = owner
          /\ minimum_stake' = minimum_stake
          /\ reputation_multiplier' = reputation_multiplier
          /\ Called("withdraw") => stake_timestamps' = stake_timestamps
          /\ Called("stake") => stake_timestamps'[last'.sender] = now
    ]_vars

\* a successful call by one staker while another holds a stake made at a
\* different time and a third account is blacklisted
C38_Witness ==
    /\ last.op \in {"stake", "withdraw"}
    /\ last.result = "Ok"
    /\ \E b \in Address \ {last.sender} :
          /\ stakes[b] > 0
          /\ reputation_scores[b] > 0
          /\ stake_timestamps[b] # stake_timestamps[last.sender]
    /\ \E c \in Address : blacklisted[c]

====
